---- MODULE Spec2Model ----
(***************************************************************************)
(* A model of jocall3/ai-presentation-generator.                           *)
(*                                                                         *)
(* The repository holds two React applications:                            *)
(*   - the presentation application  (src/App.tsx, components/StoryViewer, *)
(*     components/PlanDisplay, unnamed/part_000 = its geminiService), and  *)
(*   - the story application (second half of components/ChatPanel.tsx,     *)
(*     services/geminiService.ts, unnamed/part_001 = its pdfService).      *)
(*                                                                         *)
(* Each part of the code has its own specification:                        *)
(*   ChunkSpec  the fixed-size chunking loop, as a pure function;          *)
(*   PdfSpec    createPdf's dry run and drawing pass;                      *)
(*   PresSpec   the presentation application's state and handlers;        *)
(*   StorySpec  the story application's state and handlers;                *)
(*   AppSpec    either application (the union of the last two).            *)
(*                                                                         *)
(* A string is a sequence of characters.  An await is a request record in  *)
(* a set of requests in flight; the continuation of the handler runs, as   *)
(* one atomic step, when the request returns or throws.  React state       *)
(* updates made by one synchronous stretch of a handler are applied        *)
(* together, in order.  Display-only state (loadingMessage, robotState,    *)
(* mousePosition) is left out.                                             *)
(***************************************************************************)
EXTENDS Integers, Sequences, FiniteSets, TLC

VARIABLE
    app          \* the page that is open: "presentation" | "story" | "none"

VARIABLES
    \* ---- chunking (pure function) ----
    data,        \* the input string
    csize,       \* the chunk size
    chunks,      \* the chunks produced
    cpc          \* "start" | "done"

VARIABLES
    \* ---- createPdf ----
    pdfDoc,        \* doc.chapters: a sequence of chapters
    ppc,           \* "dry" | "draw" | "done"
    pidx,          \* number of chapters the current loop has handled
    tocEntries,    \* tocEntries[k].page
    pageCounter,   \* the dry run's page counter
    yPos,          \* the vertical cursor
    pdfPages,      \* number of pages of the PDF (1 + calls of pdf.addPage)
    titlePages     \* titlePages[k]: the PDF page chapter k's title is drawn on

VARIABLES
    \* ---- the story application (ChatPanel.tsx 99-447) ----
    sAppState,            \* appState: "INPUT" | "EDITING"
    storyDocument,        \* NoDoc (null) or [id, title, chapters]
    sIsLoading,           \* isLoading
    sError,               \* error: NoError (null) or a message
    generationStatus,     \* [active, completed, total]
    generationController, \* generationController.current: 0 (null) or the
                          \* run whose AbortController it is
    runs,                 \* runs[g]: the g-th call of handleScaffoldGeneration
                          \* and the chapter batch it starts
    nRuns,                \* calls of handleScaffoldGeneration so far
    sRequests,            \* the AI requests in flight
    nPageActions,         \* page actions started so far
    crashed               \* a state updater threw: React unmounted the app

VARIABLES
    \* ---- the presentation application (App.tsx) ----
    appState,             \* "INPUT" | "EDITING"
    presentationDocument, \* NoPres (null) or [id, title, slides]
    isLoading,
    error,                \* NoError (null) or a message
    chatMessages,
    isAiAnswering,
    actionInProgress,     \* NoAction (null) or [slideId, action]
    gens,                 \* gens[g]: the g-th call of handlePresentationGeneration
    nGens,                \* calls of handlePresentationGeneration so far
    pRequests,            \* the requests in flight (AI calls and the export)
    nActions,             \* the user's actions in the header and the editor so far
    activeSlideId         \* StoryViewer.tsx 17: the editor's state; NoSlideId is ''

chunkVars == <<data, csize, chunks, cpc>>
presVars == <<appState, presentationDocument, isLoading, error, chatMessages,
              isAiAnswering, actionInProgress, gens, nGens, pRequests, nActions,
              activeSlideId>>
storyVars == <<sAppState, storyDocument, sIsLoading, sError, generationStatus,
               generationController, runs, nRuns, sRequests, nPageActions, crashed>>
pdfVars == <<pdfDoc, ppc, pidx, tocEntries, pageCounter, yPos, pdfPages, titlePages>>

vars == <<app, chunkVars, pdfVars, storyVars, presVars>>

(***************************************************************************)
(* Bounds                                                                  *)
(***************************************************************************)
MaxLen == 5          \* longest input string of ChunkSpec
MaxChunkSize == 3    \* largest chunk size of ChunkSpec
MaxPdfChapters == 2  \* most chapters of a document given to createPdf
MaxPdfPages == 1     \* most pages of one such chapter
PAGE_CHUNK_SIZE == 1 \* ChatPanel.tsx 97 has 3200; scaled down with the inputs
MaxRuns == 2         \* calls of handleScaffoldGeneration in one behaviour
MaxPageActions == 1  \* page actions started in one behaviour
MaxStreamChunks == 1 \* most chunks one text stream yields
CHUNK_SIZE == 2      \* App.tsx 11 has 3000; scaled down with the inputs
MaxGens == 3         \* calls of handlePresentationGeneration in one behaviour
MaxActions == 2      \* actions of the user in the header and the editor in one behaviour
MaxOps == 4          \* such generations and actions together in one behaviour

(***************************************************************************)
(* The value of each group of variables while another specification runs   *)
(***************************************************************************)
ChunkIdle ==
    /\ data = <<>>
    /\ csize = 1
    /\ chunks = <<>>
    /\ cpc = "off"

PdfIdle ==
    /\ pdfDoc = <<>>
    /\ ppc = "off"
    /\ pidx = 0
    /\ tocEntries = <<>>
    /\ pageCounter = 0
    /\ yPos = 0
    /\ pdfPages = 0
    /\ titlePages = <<>>

\* null, for the document and for the error
NoDoc == [id |-> 0, title |-> "", chapters |-> <<>>]
NoError == "null"

\* a run of handleScaffoldGeneration / startChapterGeneration:
\*   pc            "none" | "title" (awaiting generateStoryTitle) |
\*                 "batch" (awaiting generateChapterFromChunk) | "done"
\*   chapterChunks the chunks, grouped into chapters
\*   i             the loop variable of startChapterGeneration
\*   aborted       signal.aborted of the run's AbortController
\*   seenTitle     storyDocument?.title || 'Untitled' in the run's closure
\*   issued        the chapter numbers requested so far, in order
NoRun == [pc |-> "none", chapterChunks |-> <<>>, i |-> 0, aborted |-> FALSE,
          seenTitle |-> "", issued |-> <<>>]

\* a run that has ended: of its local variables only the signal is left,
\* which generationController.current may still refer to
DoneRun(run) == [NoRun EXCEPT !.pc = "done", !.aborted = run.aborted]

StoryIdle ==
    /\ sAppState = "INPUT"
    /\ storyDocument = NoDoc
    /\ sIsLoading = FALSE
    /\ sError = NoError
    /\ generationStatus = [active |-> FALSE, completed |-> 0, total |-> 0]
    /\ generationController = 0
    /\ runs = [g \in 1..MaxRuns |-> NoRun]
    /\ nRuns = 0
    /\ sRequests = {}
    /\ nPageActions = 0
    /\ crashed = FALSE

NoPres == [id |-> 0, title |-> "", slides |-> <<>>]
NoSlideId == <<0, 0>>
NoAction == [slideId |-> NoSlideId, action |-> "none"]

\* a run of handlePresentationGeneration:
\*   pc              "none" | "title" (awaiting generatePresentationTitle) |
\*                   "slides" (awaiting generateSlideFromChunk) | "done"
\*   chunks, title, generatedSlides   its local variables
\*   docBefore       presentationDocument when the handler was called
\*   issued          the slide numbers requested so far, in order
\*   resetSince      history: handleReset has run since the handler was called
\*                   and handlePresentationGeneration has not been called
\*                   since that reset
NoGen == [pc |-> "none", chunks |-> <<>>, title |-> "", generatedSlides |-> <<>>,
          docBefore |-> NoPres, issued |-> <<>>, resetSince |-> FALSE]

\* a run that has ended: its local variables are gone
DoneGen == [NoGen EXCEPT !.pc = "done"]

PresIdle ==
    /\ appState = "INPUT"
    /\ presentationDocument = NoPres
    /\ isLoading = FALSE
    /\ error = NoError
    /\ chatMessages = <<>>
    /\ isAiAnswering = FALSE
    /\ actionInProgress = NoAction
    /\ gens = [g \in 1..MaxGens |-> NoGen]
    /\ nGens = 0
    /\ pRequests = {}
    /\ nActions = 0
    /\ activeSlideId = NoSlideId

Alphabet == {"a", "b"}

Min(a, b) == IF a < b THEN a ELSE b
Max(a, b) == IF a > b THEN a ELSE b

\* ceil(n / c) for n >= 0, c > 0
CeilDiv(n, c) == (n + c - 1) \div c

Strings(n) == UNION {[1..k -> Alphabet] : k \in 0..n}

RECURSIVE Concat(_)
Concat(ss) == IF ss = <<>> THEN <<>> ELSE Head(ss) \o Concat(Tail(ss))

(***************************************************************************)
(* Chunking: App.tsx 41-44, ChatPanel.tsx 135-138                          *)
(***************************************************************************)
\* Mutant: every slice starts at the beginning of the string.
SubstringFromStart(d, s, e) == SubSeq(d, 1, Min(e, Len(d)))

\* String.prototype.substring(s, e) for 0 <= s <= e: both ends are clamped
\* to the length of the string; indices are 0-based, e is exclusive.
Substring(d, s, e) == SubSeq(d, Min(s, Len(d)) + 1, Min(e, Len(d)))

\* Mutant: the loop stops as soon as a full chunk no longer fits.
RECURSIVE ChunkLoopFullOnly(_, _, _, _)
ChunkLoopFullOnly(d, size, i, acc) ==
    IF i + size <= Len(d)
    THEN ChunkLoopFullOnly(d, size, i + size, Append(acc, Substring(d, i, i + size)))
    ELSE acc

\* for (let i = 0; i < data.length; i += SIZE) chunks.push(data.substring(i, i + SIZE))
RECURSIVE ChunkLoop(_, _, _, _)
ChunkLoop(d, size, i, acc) ==
    IF i < Len(d)
    THEN ChunkLoop(d, size, i + size, Append(acc, Substring(d, i, i + size)))
    ELSE acc

ChunksFullOnly(d, size) == ChunkLoopFullOnly(d, size, 0, <<>>)

Chunks(d, size) == ChunkLoop(d, size, 0, <<>>)

ChunkInit ==
    /\ app = "none"
    /\ PresIdle
    /\ PdfIdle
    /\ StoryIdle
    /\ data \in Strings(MaxLen)
    /\ csize \in 1..MaxChunkSize
    /\ chunks = <<>>
    /\ cpc = "start"

ChunkRun ==
    /\ cpc = "start"
    /\ chunks' = Chunks(data, csize)
    /\ cpc' = "done"
    /\ UNCHANGED <<data, csize>>
    /\ UNCHANGED <<pdfVars, storyVars, presVars, app>>

ChunkNext == ChunkRun

ChunkSpec == ChunkInit /\ [][ChunkNext]_vars

\* C1: for an input of N characters and chunk size C the chunking loop
\* produces exactly ceil(N/C) chunks (none for the empty string).
C1_ChunkCount ==
    cpc = "done" => Len(chunks) = CeilDiv(Len(data), csize)

\* an input whose length is no multiple of the chunk size has been chunked
C1_Witness ==
    /\ cpc = "done"
    /\ Len(data) = MaxLen
    /\ csize = 2
    /\ Len(chunks) = 3

(***************************************************************************)
(* createPdf: unnamed/part_001                                             *)
(***************************************************************************)
\* jsPDF's a4 page is 595.28 x 841.89 pt.  Every value yPos takes is an
\* integer, so yPos > pageH - margin is decided by the integer part 841.
pageH == 841
margin == 50
TitleSpace == 30      \* dry run: "Space for title"
DryImageH == 160      \* dry run: "Approximate image height"
LineH == 14           \* line height, both passes
TitleLineH == 20      \* drawing pass, per line of the chapter title
TitleGap == 20
imgH == 150
ImageGap == 15
ParagraphGap == 28
FirstContentPage == 3 \* Cover=1, TOC=2

\* What pdf.splitTextToSize makes of a page's text: the number of lines at
\* the drawing pass's font (12 pt) and at the font in force during the dry
\* run (24 pt bold, set for the table-of-contents heading).  A text of short
\* lines gives the same count at both sizes; a wrapped paragraph gives more
\* lines at the larger font.
TextShapes == {
    [lines |-> 1,   dryLines |-> 1],
    [lines |-> 51,  dryLines |-> 51],
    [lines |-> 60,  dryLines |-> 120] }

\* a page of a chapter: has a preloaded image or not, and its text
PdfPage == [img : BOOLEAN, text : TextShapes]

\* a chapter: the number of lines of its title at 20 pt, and its pages
PdfChapter == [titleLines : 1..2,
               pages : UNION {[1..k -> PdfPage] : k \in 0..MaxPdfPages}]

PdfDocs == UNION {[1..k -> PdfChapter] : k \in 0..MaxPdfChapters}

\* lines 86-96: the dry run over the pages of one chapter;
\* st = [y, pc] is (yPos, pageCounter)
RECURSIVE DryPages(_, _)
DryPages(pages, st) ==
    IF pages = <<>> THEN st
    ELSE LET p == Head(pages)
             y1 == IF p.img THEN st.y + DryImageH ELSE st.y
             y2 == y1 + p.text.dryLines * LineH
         IN  IF y2 > pageH - margin
             THEN DryPages(Tail(pages), [y |-> margin, pc |-> st.pc + 1])
             ELSE DryPages(Tail(pages), [y |-> y2, pc |-> st.pc])

\* lines 139-146: textLines.forEach; st = [y, n] is (yPos, pages of the PDF)
RECURSIVE DrawLines(_, _)
DrawLines(k, st) ==
    IF k = 0 THEN st
    ELSE IF st.y > pageH - margin
         THEN DrawLines(k - 1, [y |-> margin + LineH, n |-> st.n + 1])
         ELSE DrawLines(k - 1, [y |-> st.y + LineH, n |-> st.n])

\* lines 121-148: the drawing pass over the pages of one chapter
RECURSIVE DrawPages(_, _)
DrawPages(pages, st) ==
    IF pages = <<>> THEN st
    ELSE LET p == Head(pages)
             s1 == IF p.img
                   THEN IF st.y + imgH > pageH - margin
                        THEN [y |-> margin + imgH + ImageGap, n |-> st.n + 1]
                        ELSE [y |-> st.y + imgH + ImageGap, n |-> st.n]
                   ELSE st
             s2 == DrawLines(p.text.lines, s1)
         IN  DrawPages(Tail(pages), [y |-> s2.y + ParagraphGap, n |-> s2.n])

\* lines 56-80: cover page, table-of-contents page, start of the dry run
PdfInit ==
    /\ app = "none"
    /\ PresIdle
    /\ ChunkIdle
    /\ StoryIdle
    /\ pdfDoc \in PdfDocs
    /\ ppc = "dry"
    /\ pidx = 0
    /\ tocEntries = <<>>
    /\ pageCounter = FirstContentPage
    /\ yPos = margin + 40
    /\ pdfPages = 2
    /\ titlePages = <<>>

\* lines 81-98: one chapter of the dry run
PdfDryChapter ==
    /\ ppc = "dry"
    /\ pidx < Len(pdfDoc)
    /\ LET ch == pdfDoc[pidx + 1]
           st == DryPages(ch.pages, [y |-> margin + TitleSpace, pc |-> pageCounter])
       IN  /\ tocEntries' = Append(tocEntries, [chapter |-> pidx + 1, page |-> pageCounter])
           /\ yPos' = st.y
           /\ pageCounter' = st.pc + 1
    /\ pidx' = pidx + 1
    /\ UNCHANGED <<pdfDoc, ppc, pdfPages, titlePages>>
    /\ UNCHANGED <<chunkVars, storyVars, presVars, app>>

\* lines 100-107: the table of contents is drawn, on the current page
PdfDrawToc ==
    /\ ppc = "dry"
    /\ pidx = Len(pdfDoc)
    /\ yPos' = yPos + 20 * Len(tocEntries)
    /\ ppc' = "draw"
    /\ pidx' = 0
    /\ UNCHANGED <<pdfDoc, tocEntries, pageCounter, pdfPages, titlePages>>
    /\ UNCHANGED <<chunkVars, storyVars, presVars, app>>

\* lines 111-149: one chapter of the drawing pass
PdfDrawChapter ==
    /\ ppc = "draw"
    /\ pidx < Len(pdfDoc)
    /\ LET ch == pdfDoc[pidx + 1]
           n0 == pdfPages + 1
           st == DrawPages(ch.pages,
                           [y |-> margin + ch.titleLines * TitleLineH + TitleGap, n |-> n0])
       IN  /\ titlePages' = Append(titlePages, n0)
           /\ yPos' = st.y
           /\ pdfPages' = st.n
    /\ pidx' = pidx + 1
    /\ UNCHANGED <<pdfDoc, ppc, tocEntries, pageCounter>>
    /\ UNCHANGED <<chunkVars, storyVars, presVars, app>>

\* lines 151-152: pdf.save
PdfSave ==
    /\ ppc = "draw"
    /\ pidx = Len(pdfDoc)
    /\ ppc' = "done"
    /\ UNCHANGED <<pdfDoc, pidx, tocEntries, pageCounter, yPos, pdfPages, titlePages>>
    /\ UNCHANGED <<chunkVars, storyVars, presVars, app>>

PdfNext == PdfDryChapter \/ PdfDrawToc \/ PdfDrawChapter \/ PdfSave

PdfSpec == PdfInit /\ [][PdfNext]_vars

\* C9: for every chapter, the page number the dry run records for it in
\* the table of contents is the number of the PDF page its title is drawn on.
C9_TocMatchesDrawing ==
    ppc = "done" =>
        \A k \in 1..Len(pdfDoc) : tocEntries[k].page = titlePages[k]

(***************************************************************************)
(* The story application: ChatPanel.tsx 99-447, services/geminiService.ts  *)
(***************************************************************************)
CHUNKS_PER_CHAPTER == 5     \* Math.floor(i / 5)
ScaffoldError == "Failed to generate a story scaffold. Please try again."
PageActionError == "An AI action failed. Please try again."
GeneratedTitle == "Story"   \* what generateStoryTitle returns

\* a string of n characters, all different
Text(n) == [k \in 1..n |-> k]

\* the inputs: the empty one and, for each number of chapters, one that
\* gives that many
StoryChapterCounts == {1, 2}

StoryInputs ==
    {Text(0)} \cup
    {Text((c - 1) * CHUNKS_PER_CHAPTER * PAGE_CHUNK_SIZE + 1) : c \in StoryChapterCounts}

\* an AI request in flight
\*   op      "storyTitle" | "chapter" | "expand"
\*   run     the run that awaits it (0 for a page action)
\*   number, total, title, text   the arguments of the call (text: a
\*           sequence of strings; a page's text is modelled by its length
\*           in stream chunks)
\*   chapterId, pageId            the page a page action is about
\*   sent    chunks a stream has yielded so far
Req(op, run, number, total, title, text, chapterId, pageId) ==
    [op |-> op, run |-> run, number |-> number, total |-> total, title |-> title,
     text |-> text, chapterId |-> chapterId, pageId |-> pageId, sent |-> 0]

NoId == <<"", 0, 0>>

\* lines 145-150: chunks.reduce, grouping the chunks five to a chapter
RECURSIVE GroupChunks(_, _, _)
GroupChunks(cs, i, acc) ==
    IF i >= Len(cs) THEN acc
    ELSE LET chapterIndex == i \div CHUNKS_PER_CHAPTER
             acc1 == IF chapterIndex + 1 > Len(acc) THEN Append(acc, <<>>) ELSE acc
         IN  GroupChunks(cs, i + 1,
                 [acc1 EXCEPT ![chapterIndex + 1] = Append(@, cs[i + 1])])

\* lines 152-157: the placeholder chapter i (0-based) of document g
PendingChapter(g, i) ==
    [id |-> <<"pending", g, i + 1>>,
     title |-> [kind |-> "pending", number |-> i + 1],
     pages |-> <<>>]

\* services/geminiService.ts 53-65: the chapter a successful call returns
GeneratedChapter(r) ==
    [id |-> <<"chapter", r.run, r.number>>,
     title |-> [kind |-> "generated", number |-> r.number],
     pages |-> << [id |-> <<"page", r.run, r.number>>, page_text |-> 0] >>]

\* line 187: the call made for chapter i (0-based) of run g
ChapterRequest(g, run, i) ==
    Req("chapter", g, i + 1, Len(run.chapterChunks), run.seenTitle,
        run.chapterChunks[i + 1], NoId, NoId)

\* Mutant: the loop does not look at the signal.
SignalIgnored(run) == FALSE

\* line 180: if (signal.aborted)
SignalAborted(run) == run.aborted

\* Mutant: the chapters are requested two at a time.
RequestsTwoAtATime(g, run, i) ==
    {ChapterRequest(g, run, k) : k \in i .. Min(i + 1, Len(run.chapterChunks) - 1)}

\* lines 186-187: the requests iteration i of the loop issues before it awaits
LoopRequests(g, run, i) == {ChapterRequest(g, run, i)}

StoryOpen == app = "story" /\ ~crashed
EditorShown == StoryOpen /\ ~sIsLoading /\ sAppState = "EDITING" /\ storyDocument # NoDoc
HeaderShown == StoryOpen /\ sAppState # "INPUT"
InputShown == StoryOpen /\ ~sIsLoading /\ sAppState = "INPUT"

StoryInit ==
    /\ app = "story"
    /\ PresIdle
    /\ ChunkIdle
    /\ PdfIdle
    /\ StoryIdle

\* Mutant: handleReset leaves appState as it is.
StoryHandleResetStaysEditing(rs) ==
    /\ runs' = IF generationController # 0
               THEN [rs EXCEPT ![generationController].aborted = TRUE]
               ELSE rs
    /\ sAppState' = sAppState
    /\ storyDocument' = NoDoc
    /\ sError' = NoError
    /\ sIsLoading' = FALSE
    /\ generationStatus' = [active |-> FALSE, completed |-> 0, total |-> 0]
    /\ UNCHANGED generationController

\* lines 118-126: handleReset, called with the runs as they are by then
StoryHandleReset(rs) ==
    /\ runs' = IF generationController # 0
               THEN [rs EXCEPT ![generationController].aborted = TRUE]
               ELSE rs
    /\ sAppState' = "INPUT"
    /\ storyDocument' = NoDoc
    /\ sError' = NoError
    /\ sIsLoading' = FALSE
    /\ generationStatus' = [active |-> FALSE, completed |-> 0, total |-> 0]
    /\ UNCHANGED generationController

\* the "Start Over" button
StoryReset ==
    /\ HeaderShown
    /\ StoryHandleReset(runs)
    /\ UNCHANGED <<nRuns, sRequests, nPageActions, crashed>>
    /\ UNCHANGED <<chunkVars, pdfVars, presVars, app>>

\* lines 128-142: handleScaffoldGeneration up to its first await
StoryGenerate(d) ==
    /\ InputShown
    /\ nRuns < MaxRuns
    /\ LET cs == Chunks(d, PAGE_CHUNK_SIZE)
           g == nRuns + 1
       IN  IF Len(cs) = 0
           THEN \* line 139 throws; lines 167-171
                /\ StoryHandleReset(runs)
                /\ UNCHANGED <<nRuns, sRequests>>
           ELSE /\ sIsLoading' = TRUE
                /\ sError' = NoError
                /\ nRuns' = g
                /\ runs' = [runs EXCEPT ![g] =
                       [NoRun EXCEPT !.pc = "title",
                                     !.chapterChunks = GroupChunks(cs, 0, <<>>),
                                     !.seenTitle = IF storyDocument # NoDoc /\ storyDocument.title # ""
                                                   THEN storyDocument.title
                                                   ELSE "Untitled"]]
                /\ sRequests' = sRequests \cup
                       {Req("storyTitle", g, 0, 0, "", <<Substring(cs[1], 0, 1000)>>, NoId, NoId)}
                /\ UNCHANGED <<sAppState, storyDocument, generationStatus, generationController>>
    /\ UNCHANGED <<nPageActions, crashed>>
    /\ UNCHANGED <<chunkVars, pdfVars, presVars, app>>

\* lines 179-187 and 206-207: the loop of startChapterGeneration from
\* iteration i on, up to its next await or its end; st is generationStatus
\* as the caller has left it
LoopFrom(g, run, i, st) ==
    LET n == Len(run.chapterChunks)
        reqs == LoopRequests(g, run, i)
    IN  IF i >= n
        THEN [run |-> DoneRun(run),
              status |-> [active |-> FALSE, completed |-> n, total |-> n],
              reqs |-> {}]
        ELSE IF SignalAborted(run)
        THEN [run |-> DoneRun(run),
              status |-> [st EXCEPT !.active = FALSE],
              reqs |-> {}]
        ELSE [run |-> [run EXCEPT !.pc = "batch", !.i = i,
                         !.issued = @ \o [k \in 1..Cardinality(reqs) |-> i + k]],
              status |-> st,
              reqs |-> reqs]

\* lines 142-165 and 174-187: generateStoryTitle returns; the document is
\* made, the batch starts and requests its first chapter
StoryTitleReturns(r) ==
    /\ r \in sRequests
    /\ r.op = "storyTitle"
    /\ LET g == r.run
           n == Len(runs[g].chapterChunks)
           next == LoopFrom(g, [runs[g] EXCEPT !.aborted = FALSE], 0,
                            [active |-> TRUE, completed |-> 0, total |-> n])
       IN  /\ storyDocument' = [id |-> g, title |-> GeneratedTitle,
                                chapters |-> [k \in 1..n |-> PendingChapter(g, k - 1)]]
           /\ generationStatus' = next.status
           /\ sAppState' = "EDITING"
           /\ sIsLoading' = FALSE
           /\ generationController' = g
           /\ runs' = [runs EXCEPT ![g] = next.run]
           /\ sRequests' = (sRequests \ {r}) \cup next.reqs
    /\ UNCHANGED <<sError, nRuns, nPageActions, crashed>>
    /\ UNCHANGED <<chunkVars, pdfVars, presVars, app>>

\* lines 167-171: generateStoryTitle throws
StoryTitleThrows(r) ==
    /\ r \in sRequests
    /\ r.op = "storyTitle"
    /\ StoryHandleReset([runs EXCEPT ![r.run] = DoneRun(@)])
    /\ sRequests' = sRequests \ {r}
    /\ UNCHANGED <<nRuns, nPageActions, crashed>>
    /\ UNCHANGED <<chunkVars, pdfVars, presVars, app>>

\* lines 188-193: the updater that puts the chapter into the document
PutChapter(doc, docId, i, chapter) ==
    IF doc = NoDoc \/ doc.id # docId THEN doc
    ELSE [doc EXCEPT !.chapters =
             IF i + 1 <= Len(@) THEN [@ EXCEPT ![i + 1] = chapter]
             ELSE @ \o [k \in 1..(i - Len(@)) |-> PendingChapter(0, 0)] \o <<chapter>>]

\* Mutant: the failure is logged and the chapter left as it is.
MarkNothing(doc, i) == doc

\* lines 199-203: the updater that marks chapter i (0-based) as failed;
\* it throws a TypeError when the document has no chapter i
MarkFailed(doc, i) ==
    IF doc = NoDoc THEN doc
    ELSE [doc EXCEPT !.chapters[i + 1].title = [kind |-> "Failed", number |-> i + 1]]

MarkThrows(doc, i) == doc # NoDoc /\ i + 1 > Len(doc.chapters)

\* the chapter request run g awaits
Awaited(r) ==
    /\ r \in sRequests
    /\ r.op = "chapter"
    /\ runs[r.run].pc = "batch"
    /\ r.number = runs[r.run].i + 1

\* lines 187-194, then the loop: generateChapterFromChunk returns
ChapterReturns(r) ==
    /\ Awaited(r)
    /\ LET g == r.run
           i == runs[g].i
           next == LoopFrom(g, runs[g], i + 1,
                            [generationStatus EXCEPT !.completed = i + 1])
       IN  /\ storyDocument' = PutChapter(storyDocument, g, i, GeneratedChapter(r))
           /\ generationStatus' = next.status
           /\ runs' = [runs EXCEPT ![g] = next.run]
           /\ sRequests' = (sRequests \ {r}) \cup next.reqs
    /\ UNCHANGED <<sAppState, sIsLoading, sError, generationController, nRuns,
                   nPageActions, crashed>>
    /\ UNCHANGED <<chunkVars, pdfVars, presVars, app>>

\* Mutant: the failed iteration is run again.
AfterCatchRetry(i) == i

\* lines 179, 204-205: the catch block falls through to the loop's i++
AfterCatch(i) == i + 1

\* lines 195-204, then the loop: generateChapterFromChunk throws an error
\* that is no AbortError
ChapterThrows(r) ==
    /\ Awaited(r)
    /\ ~MarkThrows(storyDocument, runs[r.run].i)
    /\ LET g == r.run
           i == runs[g].i
           next == LoopFrom(g, runs[g], AfterCatch(i), generationStatus)
       IN  /\ storyDocument' = MarkFailed(storyDocument, i)
           /\ generationStatus' = next.status
           /\ runs' = [runs EXCEPT ![g] = next.run]
           /\ sRequests' = (sRequests \ {r}) \cup next.reqs
    /\ UNCHANGED <<sAppState, sIsLoading, sError, generationController, nRuns,
                   nPageActions, crashed>>
    /\ UNCHANGED <<chunkVars, pdfVars, presVars, app>>

\* lines 199-203 when the document (another one than the run's) has no
\* chapter i: the updater throws.  React runs it either at once, inside
\* setStoryDocument, and the exception ends startChapterGeneration as an
\* unhandled rejection, or while rendering, and the application unmounts.
ChapterThrowsUpdaterThrows(r) ==
    /\ Awaited(r)
    /\ MarkThrows(storyDocument, runs[r.run].i)
    /\ runs' = [runs EXCEPT ![r.run] = DoneRun(@)]
    /\ sRequests' = sRequests \ {r}
    /\ crashed' \in BOOLEAN
    /\ UNCHANGED <<sAppState, storyDocument, sIsLoading, sError, generationStatus,
                   generationController, nRuns, nPageActions>>
    /\ UNCHANGED <<chunkVars, pdfVars, presVars, app>>

\* line 196: generateChapterFromChunk throws an AbortError
ChapterThrowsAbortError(r) ==
    /\ Awaited(r)
    /\ runs' = [runs EXCEPT ![r.run] = DoneRun(@)]
    /\ sRequests' = sRequests \ {r}
    /\ UNCHANGED <<sAppState, storyDocument, sIsLoading, sError, generationStatus,
                   generationController, nRuns, nPageActions, crashed>>
    /\ UNCHANGED <<chunkVars, pdfVars, presVars, app>>

\* line 210: handleStopGeneration
StoryStop ==
    /\ EditorShown
    /\ runs' = IF generationController # 0
               THEN [runs EXCEPT ![generationController].aborted = TRUE]
               ELSE runs
    /\ UNCHANGED <<sAppState, storyDocument, sIsLoading, sError, generationStatus,
                   generationController, nRuns, sRequests, nPageActions, crashed>>
    /\ UNCHANGED <<chunkVars, pdfVars, presVars, app>>

\* lines 359-373: handlePdfDownload; createPdf is not awaited
StoryPdfDownload ==
    /\ HeaderShown
    /\ sIsLoading' = IF storyDocument = NoDoc THEN sIsLoading ELSE FALSE
    /\ UNCHANGED <<sAppState, storyDocument, sError, generationStatus,
                   generationController, runs, nRuns, sRequests, nPageActions, crashed>>
    /\ UNCHANGED <<chunkVars, pdfVars, presVars, app>>

\* line 436: the error banner's close button
StoryDismissError ==
    /\ ~crashed
    /\ sError # NoError
    /\ sError' = NoError
    /\ UNCHANGED <<sAppState, storyDocument, sIsLoading, generationStatus,
                   generationController, runs, nRuns, sRequests, nPageActions, crashed>>
    /\ UNCHANGED <<chunkVars, pdfVars, presVars, app>>

\* lines 259-268: the updater that appends a chunk to a page's text
AppendToPage(doc, chapterId, pageId) ==
    IF doc = NoDoc THEN doc
    ELSE [doc EXCEPT !.chapters =
             [k \in 1..Len(@) |->
                 IF @[k].id = chapterId
                 THEN [@[k] EXCEPT !.pages =
                          [j \in 1..Len(@) |->
                              IF @[j].id = pageId
                              THEN [@[j] EXCEPT !.page_text = @ + 1]
                              ELSE @[j]]]
                 ELSE @[k]]]

\* lines 222-232 and 254-257: onExpandTextStream on a page of the document,
\* up to the request of the stream
ExpandStart(c, p) ==
    /\ EditorShown
    /\ nPageActions < MaxPageActions
    /\ c \in 1..Len(storyDocument.chapters)
    /\ p \in 1..Len(storyDocument.chapters[c].pages)
    /\ LET chapter == storyDocument.chapters[c]
           page == chapter.pages[p]
       IN  sRequests' = sRequests \cup
               {Req("expand", 0, nPageActions + 1, 0, "", <<Text(page.page_text)>>, chapter.id, page.id)}
    /\ nPageActions' = nPageActions + 1
    /\ UNCHANGED <<sAppState, storyDocument, sIsLoading, sError, generationStatus,
                   generationController, runs, nRuns, crashed>>
    /\ UNCHANGED <<chunkVars, pdfVars, presVars, app>>

\* lines 258-269: the stream yields a chunk
ExpandChunk(r) ==
    /\ r \in sRequests
    /\ r.op = "expand"
    /\ r.sent < MaxStreamChunks
    /\ storyDocument' = AppendToPage(storyDocument, r.chapterId, r.pageId)
    /\ sRequests' = (sRequests \ {r}) \cup {[r EXCEPT !.sent = @ + 1]}
    /\ UNCHANGED <<sAppState, sIsLoading, sError, generationStatus,
                   generationController, runs, nRuns, nPageActions, crashed>>
    /\ UNCHANGED <<chunkVars, pdfVars, presVars, app>>

\* lines 236-238: the stream ends
ExpandEnds(r) ==
    /\ r \in sRequests
    /\ r.op = "expand"
    /\ sRequests' = sRequests \ {r}
    /\ UNCHANGED <<sAppState, storyDocument, sIsLoading, sError, generationStatus,
                   generationController, runs, nRuns, nPageActions, crashed>>
    /\ UNCHANGED <<chunkVars, pdfVars, presVars, app>>

\* lines 233-238: the stream throws
ExpandThrows(r) ==
    /\ r \in sRequests
    /\ r.op = "expand"
    /\ sError' = PageActionError
    /\ sRequests' = sRequests \ {r}
    /\ UNCHANGED <<sAppState, storyDocument, sIsLoading, generationStatus,
                   generationController, runs, nRuns, nPageActions, crashed>>
    /\ UNCHANGED <<chunkVars, pdfVars, presVars, app>>

StoryNext ==
    \/ StoryReset
    \/ \E d \in StoryInputs : StoryGenerate(d)
    \/ \E r \in sRequests : StoryTitleReturns(r)
    \/ \E r \in sRequests : StoryTitleThrows(r)
    \/ \E r \in sRequests : ChapterReturns(r)
    \/ \E r \in sRequests : ChapterThrows(r)
    \/ \E r \in sRequests : ChapterThrowsUpdaterThrows(r)
    \/ \E r \in sRequests : ChapterThrowsAbortError(r)
    \/ StoryStop
    \/ StoryPdfDownload
    \/ StoryDismissError
    \/ \E c \in 1..Len(storyDocument.chapters), p \in 1..1 : ExpandStart(c, p)
    \/ \E r \in sRequests : ExpandChunk(r)
    \/ \E r \in sRequests : ExpandEnds(r)
    \/ \E r \in sRequests : ExpandThrows(r)

StorySpec == StoryInit /\ [][StoryNext]_vars

(***************************************************************************)
(* Claims about the story application                                      *)
(***************************************************************************)
FailedTitle(n) == [kind |-> "Failed", number |-> n]

\* a step in which the call for chapter r.number fails with a non-abort error
ChapterFails(r) == ChapterThrows(r) \/ ChapterThrowsUpdaterThrows(r)

\* after the step, chapter r.number of the document (if there is one) is
\* titled "Chapter <number> (Failed)"
MarkedFailedAfter(r) ==
    (storyDocument' # NoDoc /\ r.number <= Len(storyDocument'.chapters)) =>
        storyDocument'.chapters[r.number].title = FailedTitle(r.number)

\* after the step, the request for the chapter that follows r.number is
\* in flight
NextRequestedAfter(r) ==
    \E q \in sRequests' :
        q.op = "chapter" /\ q.run = r.run /\ q.number = r.number + 1

\* C2 (as stated): when the call for chapter i fails with a non-abort
\* error, chapter i of the current document is titled "Chapter i (Failed)"
\* and the loop goes on to request chapter i+1 (and so every later one).
C2_FailedAndAlwaysContinues ==
    [][\A r \in sRequests : ChapterFails(r) =>
          /\ MarkedFailedAfter(r)
          /\ r.number < r.total => NextRequestedAfter(r)]_vars

\* C2 (amended): when the call for chapter i fails with a non-abort error,
\* chapter i of the current document is titled "Chapter i (Failed)" and,
\* unless the batch's signal has been aborted (stop or reset), the loop
\* goes on to request chapter i+1.
C2_FailedAndContinuesUnlessAborted ==
    [][\A r \in sRequests : ChapterFails(r) =>
          /\ MarkedFailedAfter(r)
          /\ (r.number < r.total /\ ~runs[r.run].aborted) => NextRequestedAfter(r)]_vars

\* a chapter of the run's own document is marked failed and the request for
\* the chapter after it is in flight
C2_Witness ==
    \E g \in 1..MaxRuns :
        /\ runs[g].pc = "batch"
        /\ storyDocument.id = g
        /\ runs[g].i >= 1
        /\ storyDocument.chapters[runs[g].i].title = FailedTitle(runs[g].i)
        /\ \E q \in sRequests : q.op = "chapter" /\ q.run = g /\ q.number = runs[g].i + 1

\* a step in which handleScaffoldGeneration fails
ScaffoldFails ==
    \/ StoryGenerate(Text(0))
    \/ \E r \in sRequests : StoryTitleThrows(r)

\* C4: when handleScaffoldGeneration fails (empty input, or the title call
\* throws) it ends with a non-null error message in the error state.
C4_ScaffoldFailureSurfaced ==
    [][ScaffoldFails => sError' # NoError]_vars

\* C7: once a batch's controller is aborted, the batch requests no further
\* chapter.
C7_NoRequestAfterAbort ==
    [][\A g \in 1..MaxRuns :
          runs[g].aborted =>
              \A q \in sRequests' \ sRequests : ~(q.op = "chapter" /\ q.run = g)]_vars

\* the user stopped a batch that had chapters left; its request in flight
\* came back and the batch ended without asking for the next chapter
C7_Witness ==
    \E g \in 1..MaxRuns :
        /\ runs[g].aborted
        /\ runs[g].pc = "done"
        /\ storyDocument.id = g
        /\ ~generationStatus.active
        /\ generationStatus.completed = 1
        /\ generationStatus.total = 2
        /\ ~\E q \in sRequests : q.op = "chapter" /\ q.run = g

\* C8: the result of the chapter request in flight when the batch was
\* aborted is discarded: the aborted batch's steps leave
\* storyDocument.chapters as it was.
C8_AbortedBatchLeavesDocument ==
    [][\A r \in sRequests :
          ((ChapterReturns(r) \/ ChapterFails(r)) /\ runs[r.run].aborted) =>
              storyDocument'.chapters = storyDocument.chapters]_vars

(***************************************************************************)
(* The presentation application: App.tsx, unnamed/part_000                 *)
(***************************************************************************)
GenerationError == "Failed to generate a presentation. Please check your file and try again."
PptxError == "Failed to create the .pptx file."
PresentationTitle == "Deck"   \* what generatePresentationTitle returns

\* the inputs: the empty one and, for each number of chunks, one that
\* gives that many
PresChunkCounts == {1, 2}

PresInputs ==
    {Text(0)} \cup {Text((c - 1) * CHUNK_SIZE + 1) : c \in PresChunkCounts}

NoSlideTitle == [src |-> "none", number |-> 0, total |-> 0, chunk |-> <<>>]

\* a request in flight
\*   op      "presentationTitle" | "slide" | "regenContent" | "regenImage" |
\*           "answer" | "pptx" (createPresentation, no AI call)
\*   run     the run of handlePresentationGeneration that awaits it, or 0
\*   number, total, title, text   the arguments of generateSlideFromChunk
\*   slideId, slideTitle          the slide a regeneration is about
PReq(op, run, number, total, title, text, slideId, slideTitle) ==
    [op |-> op, run |-> run, number |-> number, total |-> total, title |-> title,
     text |-> text, slideId |-> slideId, slideTitle |-> slideTitle]

\* part_000 88-101: the slide a successful generateSlideFromChunk returns;
\* img is "null" when generateSlideImage failed (imageUrl || null)
GeneratedSlide(r, img) ==
    [id |-> <<r.run, r.number>>,
     title |-> [src |-> "ai", number |-> r.number, total |-> r.total, chunk |-> r.text],
     content |-> "generated",
     imageUrl |-> img]

\* Mutant: every call is given the first chunk.
SlideRequestFirstChunk(g, gen, index) ==
    PReq("slide", g, index + 1, Len(gen.chunks), gen.title, gen.chunks[1],
         NoSlideId, NoSlideTitle)

\* line 56: the call made for chunk index (0-based) of run g
SlideRequest(g, gen, index) ==
    PReq("slide", g, index + 1, Len(gen.chunks), gen.title, gen.chunks[index + 1],
         NoSlideId, NoSlideTitle)

\* Mutant: the slides are requested two at a time.
SlidesTwoAtATime(g, gen, index) ==
    {SlideRequest(g, gen, k) : k \in index .. Min(index + 1, Len(gen.chunks) - 1)}

\* lines 54-56: the requests iteration index of the loop issues before it awaits
SlideLoopRequests(g, gen, index) == {SlideRequest(g, gen, index)}

PresOpen == app = "presentation"
PEditorShown == PresOpen /\ ~isLoading /\ appState = "EDITING" /\ presentationDocument # NoPres
PHeaderShown == PresOpen /\ appState # "INPUT"
PInputShown == PresOpen /\ ~isLoading /\ appState = "INPUT"

AiRequests == {r \in pRequests : r.op # "pptx"}

\* the requests the user's clicks in the editor and the header started
UserRequests == {r \in pRequests : r.run = 0}

\* what tells two calls with the same arguments apart
FreshTag == CHOOSE n \in 1..(MaxActions + 1) : \A r \in UserRequests : r.number # n

FindSlide(doc, slideId) == {k \in 1..Len(doc.slides) : doc.slides[k].id = slideId}

\* App.tsx 164-186: renderContent after the step
PEditorShownAfter ==
    PresOpen /\ ~isLoading' /\ appState' = "EDITING" /\ presentationDocument' # NoPres

\* StoryViewer.tsx 17: useState(doc.slides[0]?.id || '')
InitialActive(doc) == IF doc.slides = <<>> THEN NoSlideId ELSE doc.slides[1].id

\* App.tsx 164-186, StoryViewer.tsx 17: the editor's state after a step that
\* leaves it active while the editor stays mounted; the state is initialised
\* when renderContent mounts the editor and is gone when it shows something
\* else
EditorState(active) ==
    activeSlideId' = IF ~PEditorShownAfter THEN NoSlideId
                     ELSE IF PEditorShown THEN active
                     ELSE InitialActive(presentationDocument')

\* StoryViewer.tsx 48, 78-88: the editor shows the SlideComponent of the
\* active slide only
IsActiveSlide(k) == presentationDocument.slides[k].id = activeSlideId

PresInit ==
    /\ app = "presentation"
    /\ ChunkIdle
    /\ PdfIdle
    /\ StoryIdle
    /\ PresIdle

\* lines 27-33: handleReset
PresReset ==
    /\ PHeaderShown
    /\ appState' = "INPUT"
    /\ presentationDocument' = NoPres
    /\ error' = NoError
    /\ isLoading' = FALSE
    /\ chatMessages' = <<>>
    /\ gens' = [g \in 1..MaxGens |->
                   IF gens[g].pc \in {"title", "slides"}
                   THEN [gens[g] EXCEPT !.resetSince = TRUE]
                   ELSE gens[g]]
    /\ UNCHANGED <<isAiAnswering, actionInProgress, nGens, pRequests, nActions>>
    /\ EditorState(activeSlideId)
    /\ UNCHANGED <<chunkVars, pdfVars, storyVars, app>>

\* lines 63-70: catch and finally of handlePresentationGeneration
PresGenerationFailed ==
    /\ error' = GenerationError
    /\ appState' = "INPUT"
    /\ isLoading' = FALSE

\* history: a call of handlePresentationGeneration ends the time "since the
\* last reset, before any new generation"
NoResetSince(gs) == [g \in 1..MaxGens |-> [gs[g] EXCEPT !.resetSince = FALSE]]

\* lines 35-49: handlePresentationGeneration up to its first await
PresGenerate(d) ==
    /\ PInputShown
    /\ nGens < MaxGens
    /\ nGens + nActions < MaxOps
    /\ LET cs == Chunks(d, CHUNK_SIZE)
           g == nGens + 1
       IN  IF Len(cs) = 0
           THEN /\ PresGenerationFailed
                /\ gens' = NoResetSince(gens)
                /\ UNCHANGED <<nGens, pRequests>>
           ELSE /\ isLoading' = TRUE
                /\ error' = NoError
                /\ nGens' = g
                /\ gens' = [NoResetSince(gens) EXCEPT ![g] =
                       [NoGen EXCEPT !.pc = "title", !.chunks = cs,
                                     !.docBefore = presentationDocument]]
                /\ pRequests' = pRequests \cup
                       {PReq("presentationTitle", g, 0, 0, "", Substring(cs[1], 0, 2000),
                             NoSlideId, NoSlideTitle)}
                /\ UNCHANGED appState
    /\ UNCHANGED <<presentationDocument, chatMessages, isAiAnswering, actionInProgress>>
    /\ UNCHANGED nActions
    /\ EditorState(activeSlideId)
    /\ UNCHANGED <<chunkVars, pdfVars, storyVars, app>>

\* lines 49-56: generatePresentationTitle returns; the loop requests the
\* first slide
PresTitleReturns(r) ==
    /\ r \in pRequests
    /\ r.op = "presentationTitle"
    /\ LET g == r.run
           gen == [gens[g] EXCEPT !.pc = "slides", !.title = PresentationTitle]
           reqs == SlideLoopRequests(g, gen, 0)
       IN  /\ gens' = [gens EXCEPT ![g] =
                  [gen EXCEPT !.issued = [k \in 1..Cardinality(reqs) |-> k]]]
           /\ pRequests' = (pRequests \ {r}) \cup reqs
    /\ UNCHANGED <<appState, presentationDocument, isLoading, error, chatMessages,
                   isAiAnswering, actionInProgress, nGens>>
    /\ UNCHANGED nActions
    /\ EditorState(activeSlideId)
    /\ UNCHANGED <<chunkVars, pdfVars, storyVars, app>>

\* lines 63-70: generatePresentationTitle throws
PresTitleThrows(r) ==
    /\ r \in pRequests
    /\ r.op = "presentationTitle"
    /\ PresGenerationFailed
    /\ gens' = [gens EXCEPT ![r.run] = DoneGen]
    /\ pRequests' = pRequests \ {r}
    /\ UNCHANGED <<presentationDocument, chatMessages, isAiAnswering, actionInProgress,
                   nGens>>
    /\ UNCHANGED nActions
    /\ EditorState(activeSlideId)
    /\ UNCHANGED <<chunkVars, pdfVars, storyVars, app>>

\* the slide request run g awaits
PresAwaited(r) ==
    /\ r \in pRequests
    /\ r.op = "slide"
    /\ gens[r.run].pc = "slides"
    /\ r.number = Len(gens[r.run].generatedSlides) + 1

\* lines 56-62, 67-70: generateSlideFromChunk returns; the loop goes on, or
\* the document is set
PresSlideReturns(r, img) ==
    /\ PresAwaited(r)
    /\ LET g == r.run
           slides == Append(gens[g].generatedSlides, GeneratedSlide(r, img))
           gen == [gens[g] EXCEPT !.generatedSlides = slides]
           index == Len(slides)
           reqs == SlideLoopRequests(g, gen, index)
       IN  IF index < Len(gen.chunks)
           THEN /\ gens' = [gens EXCEPT ![g] =
                       [gen EXCEPT !.issued = @ \o [k \in 1..Cardinality(reqs) |-> index + k]]]
                /\ pRequests' = (pRequests \ {r}) \cup reqs
                /\ UNCHANGED <<appState, presentationDocument, isLoading>>
           ELSE /\ presentationDocument' = [id |-> g, title |-> gen.title, slides |-> slides]
                /\ appState' = "EDITING"
                /\ isLoading' = FALSE
                /\ gens' = [gens EXCEPT ![g] = DoneGen]
                /\ pRequests' = pRequests \ {r}
    /\ UNCHANGED <<error, chatMessages, isAiAnswering, actionInProgress, nGens>>
    /\ UNCHANGED nActions
    /\ EditorState(activeSlideId)
    /\ UNCHANGED <<chunkVars, pdfVars, storyVars, app>>

\* lines 63-70: generateSlideFromChunk throws
PresSlideThrows(r) ==
    /\ PresAwaited(r)
    /\ PresGenerationFailed
    /\ gens' = [gens EXCEPT ![r.run] = DoneGen]
    /\ pRequests' = pRequests \ {r}
    /\ UNCHANGED <<presentationDocument, chatMessages, isAiAnswering, actionInProgress,
                   nGens>>
    /\ UNCHANGED nActions
    /\ EditorState(activeSlideId)
    /\ UNCHANGED <<chunkVars, pdfVars, storyVars, app>>

\* lines 148-154: handlePptxDownload up to its await
PptxStart ==
    /\ PHeaderShown
    /\ presentationDocument # NoPres
    /\ nActions < MaxActions
    /\ nGens + nActions < MaxOps
    /\ isLoading' = TRUE
    /\ error' = NoError
    /\ pRequests' = pRequests \cup
           {PReq("pptx", 0, FreshTag, 0, "", <<>>, NoSlideId, NoSlideTitle)}
    /\ UNCHANGED <<appState, presentationDocument, chatMessages, isAiAnswering,
                   actionInProgress, gens, nGens>>
    /\ nActions' = nActions + 1
    /\ EditorState(activeSlideId)
    /\ UNCHANGED <<chunkVars, pdfVars, storyVars, app>>

\* lines 159-161: createPresentation returns
PptxReturns(r) ==
    /\ r \in pRequests
    /\ r.op = "pptx"
    /\ isLoading' = FALSE
    /\ pRequests' = pRequests \ {r}
    /\ UNCHANGED <<appState, presentationDocument, error, chatMessages, isAiAnswering,
                   actionInProgress, gens, nGens>>
    /\ UNCHANGED nActions
    /\ EditorState(activeSlideId)
    /\ UNCHANGED <<chunkVars, pdfVars, storyVars, app>>

\* lines 155-161: createPresentation throws
PptxThrows(r) ==
    /\ r \in pRequests
    /\ r.op = "pptx"
    /\ error' = PptxError
    /\ isLoading' = FALSE
    /\ pRequests' = pRequests \ {r}
    /\ UNCHANGED <<appState, presentationDocument, chatMessages, isAiAnswering,
                   actionInProgress, gens, nGens>>
    /\ UNCHANGED nActions
    /\ EditorState(activeSlideId)
    /\ UNCHANGED <<chunkVars, pdfVars, storyVars, app>>

\* line 223: the error banner's close button
PresDismissError ==
    /\ error # NoError
    /\ error' = NoError
    /\ UNCHANGED <<appState, presentationDocument, isLoading, chatMessages, isAiAnswering,
                   actionInProgress, gens, nGens, pRequests>>
    /\ UNCHANGED nActions
    /\ EditorState(activeSlideId)
    /\ UNCHANGED <<chunkVars, pdfVars, storyVars, app>>

\* PlanDisplay.tsx 24-25, 47, 74: the regenerate buttons of a slide are
\* disabled while actionInProgress names that slide
ButtonsEnabled(slide) == actionInProgress.slideId # slide.id

\* Mutant: the new content is written into every slide.
SetContentOfAll(doc, slideId, newContent) ==
    IF doc = NoPres THEN doc
    ELSE [doc EXCEPT !.slides = [k \in 1..Len(@) |-> [@[k] EXCEPT !.content = newContent]]]

\* lines 98-104: the updater that replaces the content of slide slideId
SetContent(doc, slideId, newContent) ==
    IF doc = NoPres THEN doc
    ELSE [doc EXCEPT !.slides =
             [k \in 1..Len(@) |->
                 IF @[k].id = slideId THEN [@[k] EXCEPT !.content = newContent] ELSE @[k]]]

\* lines 120-126: the updater that replaces the imageUrl of slide slideId
SetImageUrl(doc, slideId, newImageUrl) ==
    IF doc = NoPres THEN doc
    ELSE [doc EXCEPT !.slides =
             [k \in 1..Len(@) |->
                 IF @[k].id = slideId THEN [@[k] EXCEPT !.imageUrl = newImageUrl] ELSE @[k]]]

\* lines 91-97: handleRegenerateSlideContent up to its await
RegenContentStart(k) ==
    /\ PEditorShown
    /\ nActions < MaxActions
    /\ nGens + nActions < MaxOps
    /\ k \in 1..Len(presentationDocument.slides)
    /\ IsActiveSlide(k)
    /\ LET slide == presentationDocument.slides[k]
       IN  /\ ButtonsEnabled(slide)
           /\ actionInProgress' = [slideId |-> slide.id, action |-> "content"]
           /\ pRequests' = pRequests \cup
                  {PReq("regenContent", 0, FreshTag, 0, "", <<>>, slide.id, slide.title)}
    /\ UNCHANGED <<appState, presentationDocument, isLoading, error, chatMessages,
                   isAiAnswering, gens, nGens>>
    /\ nActions' = nActions + 1
    /\ EditorState(activeSlideId)
    /\ UNCHANGED <<chunkVars, pdfVars, storyVars, app>>

\* lines 97-110: regenerateSlideContent returns
RegenContentReturns(r) ==
    /\ r \in pRequests
    /\ r.op = "regenContent"
    /\ presentationDocument' = SetContent(presentationDocument, r.slideId, "regenerated")
    /\ actionInProgress' = NoAction
    /\ pRequests' = pRequests \ {r}
    /\ UNCHANGED <<appState, isLoading, error, chatMessages, isAiAnswering, gens, nGens>>
    /\ UNCHANGED nActions
    /\ EditorState(activeSlideId)
    /\ UNCHANGED <<chunkVars, pdfVars, storyVars, app>>

\* lines 105-110: regenerateSlideContent throws
RegenContentThrows(r) ==
    /\ r \in pRequests
    /\ r.op = "regenContent"
    /\ actionInProgress' = NoAction
    /\ pRequests' = pRequests \ {r}
    /\ UNCHANGED <<appState, presentationDocument, isLoading, error, chatMessages,
                   isAiAnswering, gens, nGens>>
    /\ UNCHANGED nActions
    /\ EditorState(activeSlideId)
    /\ UNCHANGED <<chunkVars, pdfVars, storyVars, app>>

\* lines 113-119: handleRegenerateSlideImage up to its await
RegenImageStart(k) ==
    /\ PEditorShown
    /\ nActions < MaxActions
    /\ nGens + nActions < MaxOps
    /\ k \in 1..Len(presentationDocument.slides)
    /\ IsActiveSlide(k)
    /\ LET slide == presentationDocument.slides[k]
       IN  /\ ButtonsEnabled(slide)
           /\ actionInProgress' = [slideId |-> slide.id, action |-> "image"]
           /\ pRequests' = pRequests \cup
                  {PReq("regenImage", 0, FreshTag, 0, "", <<>>, slide.id, slide.title)}
    /\ UNCHANGED <<appState, presentationDocument, isLoading, error, chatMessages,
                   isAiAnswering, gens, nGens>>
    /\ nActions' = nActions + 1
    /\ EditorState(activeSlideId)
    /\ UNCHANGED <<chunkVars, pdfVars, storyVars, app>>

\* lines 119-131: generateImageForSlide returns: the new image's URL, or ""
\* when generateSlideImage caught a failure of the image call (part_000 59-62)
RegenImageReturns(r, url) ==
    /\ r \in pRequests
    /\ r.op = "regenImage"
    /\ presentationDocument' = SetImageUrl(presentationDocument, r.slideId, url)
    /\ actionInProgress' = NoAction
    /\ pRequests' = pRequests \ {r}
    /\ UNCHANGED <<appState, isLoading, error, chatMessages, isAiAnswering, gens, nGens>>
    /\ UNCHANGED nActions
    /\ EditorState(activeSlideId)
    /\ UNCHANGED <<chunkVars, pdfVars, storyVars, app>>

\* lines 127-131: generateImageForSlide throws (the prompt call failed)
RegenImageThrows(r) ==
    /\ r \in pRequests
    /\ r.op = "regenImage"
    /\ actionInProgress' = NoAction
    /\ pRequests' = pRequests \ {r}
    /\ UNCHANGED <<appState, presentationDocument, isLoading, error, chatMessages,
                   isAiAnswering, gens, nGens>>
    /\ UNCHANGED nActions
    /\ EditorState(activeSlideId)
    /\ UNCHANGED <<chunkVars, pdfVars, storyVars, app>>

\* Mutant: the new slide takes the id of the first slide.
NewSlideStaleId(doc, n) ==
    [id |-> IF doc.slides = <<>> THEN <<0, n>> ELSE doc.slides[1].id,
     title |-> [src |-> "new", number |-> Len(doc.slides) + 1, total |-> 0, chunk |-> <<>>],
     content |-> "placeholder",
     imageUrl |-> "null"]

\* StoryViewer.tsx 24-29: the slide handleAddSlide makes; crypto.randomUUID()
\* gives an id no slide has had before (n numbers the user's actions)
NewSlide(doc, n) ==
    [id |-> <<0, n>>,
     title |-> [src |-> "new", number |-> Len(doc.slides) + 1, total |-> 0, chunk |-> <<>>],
     content |-> "placeholder",
     imageUrl |-> "null"]

\* StoryViewer.tsx 19-21: handleUpdateDoc
HandleUpdateDoc(doc, updated) == IF doc = NoPres THEN NoPres ELSE updated

\* Mutant: the new slide is put first.
AddedFirst(slides, slide) == <<slide>> \o slides

\* StoryViewer.tsx 30: [...d.slides, newSlide]
Added(slides, slide) == Append(slides, slide)

\* StoryViewer.tsx 36: d.slides.filter(s => s.id !== slideId)
Filtered(slides, slideId) == SelectSeq(slides, LAMBDA sl : sl.id # slideId)

\* StoryViewer.tsx 23-32: handleAddSlide
PresAddSlide ==
    /\ PEditorShown
    /\ nActions < MaxActions
    /\ nGens + nActions < MaxOps
    /\ LET slide == NewSlide(presentationDocument, nActions + 1)
       IN  presentationDocument' =
               HandleUpdateDoc(presentationDocument,
                   [presentationDocument EXCEPT !.slides = Added(@, slide)])
    /\ nActions' = nActions + 1
    /\ UNCHANGED <<appState, isLoading, error, chatMessages, isAiAnswering,
                   actionInProgress, gens, nGens, pRequests>>
    /\ EditorState(NewSlide(presentationDocument, nActions + 1).id)
    /\ UNCHANGED <<chunkVars, pdfVars, storyVars, app>>

\* StoryViewer.tsx 35, 38-45: the active slide after handleDeleteSlide(slideId)
ActiveAfterDelete(doc, active, slideId) ==
    LET slideIndex == IF FindSlide(doc, slideId) = {} THEN -1
                      ELSE (CHOOSE k \in FindSlide(doc, slideId) :
                                \A j \in FindSlide(doc, slideId) : k <= j) - 1
    IN  IF active = slideId
        THEN IF Len(doc.slides) > 1
             THEN doc.slides[Max(0, slideIndex - 1) + 1].id
             ELSE NoSlideId
        ELSE active

\* StoryViewer.tsx 34-46, 83, PlanDisplay.tsx 84: the delete button of slide
\* k, the active slide
PresDeleteSlide(k) ==
    /\ PEditorShown
    /\ nActions < MaxActions
    /\ nGens + nActions < MaxOps
    /\ k \in 1..Len(presentationDocument.slides)
    /\ IsActiveSlide(k)
    /\ LET slideId == presentationDocument.slides[k].id
       IN  /\ presentationDocument' =
                  HandleUpdateDoc(presentationDocument,
                      [presentationDocument EXCEPT !.slides = Filtered(@, slideId)])
           /\ nActions' = nActions + 1
           /\ UNCHANGED <<appState, isLoading, error, chatMessages, isAiAnswering,
                          actionInProgress, gens, nGens, pRequests>>
           /\ EditorState(ActiveAfterDelete(presentationDocument, activeSlideId, slideId))
    /\ UNCHANGED <<chunkVars, pdfVars, storyVars, app>>

\* StoryViewer.tsx 56-65: the navigator button of slide k
PresSelectSlide(k) ==
    /\ PEditorShown
    /\ k \in 1..Len(presentationDocument.slides)
    /\ activeSlideId' = presentationDocument.slides[k].id
    /\ UNCHANGED <<appState, presentationDocument, isLoading, error, chatMessages,
                   isAiAnswering, actionInProgress, gens, nGens, pRequests, nActions>>
    /\ UNCHANGED <<chunkVars, pdfVars, storyVars, app>>

\* the updates the editor passes to onUpdateSlide: PlanDisplay.tsx 60 (the
\* title typed) and 21 (the content typed)
SlideUpdates == {"title", "content"}

\* App.tsx 135-143: the updater of onUpdateSlide: { ...s, ...updates }
Updated(doc, slideId, updates) ==
    IF doc = NoPres THEN doc
    ELSE [doc EXCEPT !.slides =
             [k \in 1..Len(@) |->
                 IF @[k].id = slideId
                 THEN IF updates = "title"
                      THEN [@[k] EXCEPT !.title = [src |-> "user", number |-> 0,
                                                   total |-> 0, chunk |-> <<>>]]
                      ELSE [@[k] EXCEPT !.content = "typed"]
                 ELSE @[k]]]

\* App.tsx 135-143, PlanDisplay.tsx 20-22, 60: the user types in slide k
PresUpdateSlide(k, updates) ==
    /\ PEditorShown
    /\ nActions < MaxActions
    /\ nGens + nActions < MaxOps
    /\ k \in 1..Len(presentationDocument.slides)
    /\ IsActiveSlide(k)
    /\ presentationDocument' =
           Updated(presentationDocument, presentationDocument.slides[k].id, updates)
    /\ nActions' = nActions + 1
    /\ UNCHANGED <<appState, isLoading, error, chatMessages, isAiAnswering,
                   actionInProgress, gens, nGens, pRequests>>
    /\ EditorState(activeSlideId)
    /\ UNCHANGED <<chunkVars, pdfVars, storyVars, app>>

UserMessage == [role |-> "user", content |-> "question"]

\* lines 73-81: handleAskQuestion up to its await
AskQuestion ==
    /\ PEditorShown
    /\ \E k \in 1..Len(presentationDocument.slides) : IsActiveSlide(k)
    /\ nActions < MaxActions
    /\ nGens + nActions < MaxOps
    /\ ~isAiAnswering
    /\ chatMessages' = <<UserMessage>>
    /\ isAiAnswering' = TRUE
    /\ pRequests' = pRequests \cup
           {PReq("answer", 0, FreshTag, 0, "", <<>>, NoSlideId, NoSlideTitle)}
    /\ UNCHANGED <<appState, presentationDocument, isLoading, error, actionInProgress,
                   gens, nGens>>
    /\ nActions' = nActions + 1
    /\ EditorState(activeSlideId)
    /\ UNCHANGED <<chunkVars, pdfVars, storyVars, app>>

\* lines 81-88: answerQuestionAboutPresentation returns or throws
AnswerArrives(r, content) ==
    /\ r \in pRequests
    /\ r.op = "answer"
    /\ chatMessages' = <<UserMessage, [role |-> "model", content |-> content]>>
    /\ isAiAnswering' = FALSE
    /\ pRequests' = pRequests \ {r}
    /\ UNCHANGED <<appState, presentationDocument, isLoading, error, actionInProgress,
                   gens, nGens>>
    /\ UNCHANGED nActions
    /\ EditorState(activeSlideId)
    /\ UNCHANGED <<chunkVars, pdfVars, storyVars, app>>

PresNext ==
    \/ PresReset
    \/ \E d \in PresInputs : PresGenerate(d)
    \/ \E r \in pRequests : PresTitleReturns(r)
    \/ \E r \in pRequests : PresTitleThrows(r)
    \/ \E r \in pRequests, img \in {"null", "image"} : PresSlideReturns(r, img)
    \/ \E r \in pRequests : PresSlideThrows(r)
    \/ PptxStart
    \/ \E r \in pRequests : PptxReturns(r)
    \/ \E r \in pRequests : PptxThrows(r)
    \/ PresDismissError
    \/ \E k \in 1..Len(presentationDocument.slides) : RegenContentStart(k)
    \/ \E r \in pRequests : RegenContentReturns(r)
    \/ \E r \in pRequests : RegenContentThrows(r)
    \/ \E k \in 1..Len(presentationDocument.slides) : RegenImageStart(k)
    \/ \E r \in pRequests, url \in {"newimage", ""} : RegenImageReturns(r, url)
    \/ \E r \in pRequests : RegenImageThrows(r)
    \/ AskQuestion
    \/ \E r \in pRequests, c \in {"answer", "sorry"} : AnswerArrives(r, c)
    \/ PresAddSlide
    \/ \E k \in 1..Len(presentationDocument.slides) : PresDeleteSlide(k)
    \/ \E k \in 1..Len(presentationDocument.slides), u \in SlideUpdates :
           PresUpdateSlide(k, u)
    \/ \E k \in 1..Len(presentationDocument.slides) : PresSelectSlide(k)

PresSpec == PresInit /\ [][PresNext]_vars

\* either application: one of the two pages is opened
AppInit ==
    /\ app \in {"presentation", "story"}
    /\ ChunkIdle
    /\ PdfIdle
    /\ StoryIdle
    /\ PresIdle

AppNext == PresNext \/ StoryNext

AppSpec == AppInit /\ [][AppNext]_vars

(***************************************************************************)
(* Claims about the presentation application                               *)
(***************************************************************************)
\* a step in which the slide call of a generation fails
SlideCallFails(r) == PresSlideThrows(r)

\* C3: a failure of the slide-generation call for one chunk does not stop
\* the per-chunk loop: the slide for the next chunk is still requested.
C3_SlideFailureContinues ==
    [][\A r \in pRequests :
          (SlideCallFails(r) /\ r.number < r.total) =>
              \E q \in pRequests' :
                  q.op = "slide" /\ q.run = r.run /\ q.number = r.number + 1]_vars

\* the steps in which run g of handlePresentationGeneration fails
GenerationFails(g) ==
    \/ g = nGens + 1 /\ PresGenerate(Text(0))
    \/ \E r \in pRequests : r.run = g /\ (PresTitleThrows(r) \/ PresSlideThrows(r))

\* presentationDocument when run g was called
DocBeforeCall(g) ==
    IF g = nGens + 1 THEN presentationDocument ELSE gens[g].docBefore

\* C5: when handlePresentationGeneration fails (empty input, title call
\* throws, or a slide call throws) it ends with the generic error message,
\* appState = INPUT, isLoading = false and presentationDocument as it was
\* before the call.
C5_FailureLeavesDocument ==
    [][\A g \in 1..MaxGens : GenerationFails(g) =>
          /\ error' = GenerationError
          /\ appState' = "INPUT"
          /\ isLoading' = FALSE
          /\ presentationDocument' = DocBeforeCall(g)]_vars

\* C10: after handleReset the document is null and appState is INPUT, and
\* the document stays null until a new generation is started: a result
\* that arrives for an operation in flight at reset time, before any new
\* generation has been started, leaves it null.
C10_DiscardedUntilNewGeneration ==
    [][/\ PresReset => (presentationDocument' = NoPres /\ appState' = "INPUT")
       /\ \A r \in pRequests, img \in {"null", "image"} :
              (PresSlideReturns(r, img) /\ gens[r.run].resetSince) =>
                  presentationDocument' = NoPres
       /\ \A r \in pRequests, url \in {"newimage", ""} :
              (  (RegenContentReturns(r) \/ RegenImageReturns(r, url))
               /\ presentationDocument = NoPres) =>
                  presentationDocument' = NoPres]_vars

(***************************************************************************)
(* Claims about both applications                                          *)
(***************************************************************************)
\* the AI requests in flight in the application that is open
InFlight == AiRequests \cup sRequests

\* the requests in flight of the generation loop of run g
LoopInFlight(g) ==
    {r \in InFlight :
        r.op \in {"presentationTitle", "slide", "storyTitle", "chapter"} /\ r.run = g}

\* C6 (as stated): in every reachable state of either application, under
\* any sequence of user actions, at most one AI request is in flight.
C6_AtMostOneInFlight == Cardinality(InFlight) <= 1

\* C6 (amended): the AI calls of one generation (one call of
\* handlePresentationGeneration, or one call of handleScaffoldGeneration
\* with its chapter batch) are sequential: at most one request of that
\* generation is in flight.
C6_OneInFlightPerGeneration ==
    \A g \in 1..Max(MaxGens, MaxRuns) : Cardinality(LoopInFlight(g)) <= 1

\* a page action was started during the chapter batch: the batch's chapter
\* request and the page's stream are in flight together
C6_Witness ==
    /\ \E r \in sRequests : r.op = "chapter" /\ LoopInFlight(r.run) = {r}
    /\ \E r \in sRequests : r.op = "expand"

(***************************************************************************)
(* Claims about the slides of the presentation                             *)
(***************************************************************************)
slides == presentationDocument.slides

\* C11: no two slides of presentationDocument have the same id.
C11_SlideIdsUnique ==
    \A i, j \in 1..Len(slides) : slides[i].id = slides[j].id => i = j

\* a generated deck to which the user has added a slide
C11_Witness ==
    /\ Len(slides) = 3
    /\ slides[1].id[1] >= 1
    /\ slides[3].id[1] = 0

\* the slides without the k-th
WithoutKth(ss, k) == SubSeq(ss, 1, k - 1) \o SubSeq(ss, k + 1, Len(ss))

\* the ids of the slides, in order
Ids(doc) == [k \in 1..Len(doc.slides) |-> doc.slides[k].id]

\* C12: updating a slide and regenerating its content or image leave the
\* order of the slides as it is; deleting a slide removes exactly that slide
\* and keeps the others in order; add-slide places the new slide last.
C12_OrderPreserved ==
    [][/\ \A k \in 1..Len(slides), u \in SlideUpdates :
              PresUpdateSlide(k, u) => Ids(presentationDocument') = Ids(presentationDocument)
       /\ \A r \in pRequests, url \in {"newimage", ""} :
              (RegenContentReturns(r) \/ RegenImageReturns(r, url)) =>
                  Ids(presentationDocument') = Ids(presentationDocument)
       /\ \A k \in 1..Len(slides) :
              PresDeleteSlide(k) => presentationDocument'.slides = WithoutKth(slides, k)
       /\ PresAddSlide =>
              /\ Len(presentationDocument'.slides) = Len(slides) + 1
              /\ SubSeq(presentationDocument'.slides, 1, Len(slides)) = slides
              /\ presentationDocument'.slides[Len(slides) + 1].id = <<0, nActions'>>]_vars

\* the user added a slide to a deck of two and then deleted the first: the
\* second generated slide and the new one are left, in that order
C12_Witness ==
    /\ Len(slides) = 2
    /\ slides[1].id[1] >= 1 /\ slides[1].id[2] = 2
    /\ slides[2].id[1] = 0

\* the step in which run g of handlePresentationGeneration succeeds
GenerationSucceeds(g) ==
    \E r \in pRequests, img \in {"null", "image"} :
        r.run = g /\ r.number = Len(gens[g].chunks) /\ PresSlideReturns(r, img)

\* what generateSlideFromChunk was asked for to get this slide
MadeFor(slide) == slide.title

\* C13: a successful generation produces a document with one slide per
\* chunk, in chunk order: slide k is the result of the call made for chunk
\* k with slideNumber = k and totalSlides = the number of chunks; the
\* handler ends with appState = EDITING and isLoading = false.
C13_OneSlidePerChunk ==
    [][\A g \in 1..MaxGens : GenerationSucceeds(g) =>
          LET chs == gens[g].chunks
              new == presentationDocument'.slides
          IN  /\ Len(new) = Len(chs)
              /\ \A k \in 1..Len(chs) :
                     /\ MadeFor(new[k]).src = "ai"
                     /\ MadeFor(new[k]).chunk = chs[k]
                     /\ MadeFor(new[k]).number = k
                     /\ MadeFor(new[k]).total = Len(chs)
              /\ appState' = "EDITING"
              /\ isLoading' = FALSE]_vars

\* a generation of two chunks has just succeeded
C13_Witness ==
    /\ appState = "EDITING"
    /\ ~isLoading
    /\ nGens = 1 /\ gens[1].pc = "done" /\ nActions = 0
    /\ Len(slides) = 2
    /\ MadeFor(slides[2]).number = 2

(***************************************************************************)
(* Claims about the generation loops                                       *)
(***************************************************************************)
NoDuplicates(seq) == \A i, j \in 1..Len(seq) : seq[i] = seq[j] => i = j

\* C14: within one generation run the AI call for each slide chunk
\* (presentation) and each chapter (story) is issued at most once, whether
\* it succeeds or fails.
C14_NoRetry ==
    /\ \A g \in 1..MaxGens : NoDuplicates(gens[g].issued)
    /\ \A g \in 1..MaxRuns : NoDuplicates(runs[g].issued)

\* the call for chapter 1 failed and the batch has gone on to chapter 2
C14_Witness ==
    \E g \in 1..MaxRuns :
        /\ runs[g].issued = <<1, 2>>
        /\ storyDocument.id = g
        /\ storyDocument.chapters[1].title = FailedTitle(1)
        /\ \E q \in sRequests : q.op = "chapter" /\ q.run = g /\ q.number = 2

\* C15: a chapter result or a "(Failed)" marking of a batch started for
\* document D never modifies a storyDocument whose id differs from D.
C15_OnlyOwnDocument ==
    [][\A r \in sRequests :
          ((ChapterReturns(r) \/ ChapterFails(r)) /\ storyDocument.id # r.run) =>
              storyDocument' = storyDocument]_vars

\* C16: in every reachable state of the story application generationStatus
\* satisfies 0 <= completed <= total.
C16_CompletedWithinTotal ==
    /\ 0 <= generationStatus.completed
    /\ generationStatus.completed <= generationStatus.total

\* a step in which the chapter batch of run g, the batch of the current
\* document, ends
BatchEnds(g) ==
    /\ runs[g].pc = "batch"
    /\ runs'[g].pc = "done"
    /\ storyDocument.id = g
    /\ storyDocument'.id = g

\* C17: every chapter batch ends with generationStatus.active = false,
\* whether it runs to completion or is stopped, whatever the AI calls
\* return or throw.
C17_BatchEndsInactive ==
    [][\A g \in 1..MaxRuns : BatchEnds(g) => ~generationStatus'.active]_vars

\* C18: when a chapter batch that was never aborted, and whose document was
\* not reset, ends, no chapter has its placeholder title any more and
\* generationStatus is {active: false, completed = total}.
C18_NoPendingAtEnd ==
    [][\A g \in 1..MaxRuns :
          (BatchEnds(g) /\ ~runs[g].aborted /\ ~runs'[g].aborted) =>
              LET chapters == storyDocument'.chapters
              IN  /\ \A k \in 1..Len(chapters) : chapters[k].title.kind # "pending"
                  /\ generationStatus' = [active |-> FALSE, completed |-> Len(chapters),
                                          total |-> Len(chapters)]]_vars

\* C19: every chapter request of a batch carries as storyTitle the title
\* that was generated for the batch's document.
C19_RequestsCarryTitle ==
    \A r \in sRequests :
        r.op = "chapter" =>
            /\ r.title = GeneratedTitle
            /\ storyDocument.id = r.run => r.title = storyDocument.title

\* the regenerations in flight
RegenInFlight == {r \in pRequests : r.op \in {"regenContent", "regenImage"}}

\* the action a regeneration request is shown as
ActionOf(r) == IF r.op = "regenContent" THEN "content" ELSE "image"

\* C20: whenever a content or image regeneration is in flight,
\* actionInProgress is non-null and names a slide and action that has a
\* request in flight.
C20_ActionInProgressTracks ==
    RegenInFlight # {} =>
        /\ actionInProgress # NoAction
        /\ \E r \in RegenInFlight :
               /\ actionInProgress.slideId = r.slideId
               /\ actionInProgress.action = ActionOf(r)

(***************************************************************************)
(* Claims about the regeneration of a slide                                *)
(***************************************************************************)
\* a step in which a regeneration ends after one of its AI calls failed:
\* regenerateSlideContent or generateImagePromptForSlide threw, or the image
\* call failed inside generateSlideImage, which then returned ""
RegenerationFails(r) ==
    \/ RegenContentThrows(r)
    \/ RegenImageThrows(r)
    \/ RegenImageReturns(r, "")

\* C21: a failed regeneration leaves the document unchanged: if any AI call
\* made by handleRegenerateSlideContent or handleRegenerateSlideImage fails,
\* the image-generation call included, presentationDocument afterwards
\* equals presentationDocument before; the slide keeps its imageUrl.
C21_FailedRegenLeavesDocument ==
    [][\A r \in pRequests :
          RegenerationFails(r) => presentationDocument' = presentationDocument]_vars

\* C22: when handleRegenerateSlideContent(slideId) completes, only the
\* content field of the slide with that id differs from the document as it
\* was just before the result was applied: that slide's id, title and
\* imageUrl and all other slides are unchanged, so what the user edited,
\* added or deleted while the request was in flight is preserved.
C22_ContentRegenFrame ==
    [][\A r \in pRequests : RegenContentReturns(r) =>
          LET old == presentationDocument
              new == presentationDocument'
          IN  /\ new.id = old.id
              /\ new.title = old.title
              /\ Len(new.slides) = Len(old.slides)
              /\ \A k \in 1..Len(old.slides) :
                     IF old.slides[k].id = r.slideId
                     THEN new.slides[k] =
                              [old.slides[k] EXCEPT !.content = new.slides[k].content]
                     ELSE new.slides[k] = old.slides[k]]_vars

\* the content of slide 1 of a deck of two has been regenerated, and the
\* user has typed a title into slide 2
C22_Witness ==
    /\ Len(slides) = 2
    /\ slides[1].content = "regenerated"
    /\ slides[1].title.src = "ai"
    /\ slides[2].title.src = "user"
    /\ slides[2].content = "generated"
    /\ pRequests = {}

(***************************************************************************)
(* Claims about the editor and the application state                       *)
(***************************************************************************)
\* C23: in the presentation editor, after any sequence of add-slide,
\* select-slide and delete-slide operations, activeSlideId is the id of a
\* slide of the document whenever the document has at least one slide (also
\* after the active slide was deleted while others remain), and is '' only
\* when the document has no slides.
C23_ActiveSlideValid ==
    PEditorShown =>
        /\ slides # <<>> => FindSlide(presentationDocument, activeSlideId) # {}
        /\ activeSlideId = NoSlideId => slides = <<>>

\* C24: in every reachable state of either application, whenever appState
\* is EDITING the document (presentationDocument, storyDocument) is not
\* null.
C24_EditingHasDocument ==
    /\ (app = "presentation" /\ appState = "EDITING") => presentationDocument # NoPres
    /\ (app = "story" /\ sAppState = "EDITING") => storyDocument # NoDoc

\* the story application is editing the document of its second generation,
\* made after a reset, while a chapter request of the first is in flight
C24_Witness ==
    /\ app = "story"
    /\ sAppState = "EDITING"
    /\ storyDocument.id = 2
    /\ \E r \in sRequests : r.op = "chapter" /\ r.run = 1

\* C25: after handleReset in the presentation application chatMessages is
\* empty and stays empty until the user asks a new question, even if the
\* answer to a question that was in flight at the reset arrives afterwards.
\* (chatMessages is emptied by handleReset only, so an empty chat with an
\* answer in flight is a chat that was reset after the question.)
C25_ChatStaysEmptyAfterReset ==
    [][(chatMessages = <<>> /\ ~AskQuestion) => chatMessages' = <<>>]_vars

(***************************************************************************)
(* Claims about the chunks                                                 *)
(***************************************************************************)
\* C26: the chunks are contiguous, non-overlapping slices of fixed size: for
\* every input string, concatenating the chunks in order gives back the
\* input exactly, every chunk but the last has exactly C characters, and
\* the last chunk has between 1 and C characters.
C26_ChunksContiguous ==
    cpc = "done" =>
        /\ Concat(chunks) = data
        /\ \A k \in 1..(Len(chunks) - 1) : Len(chunks[k]) = csize
        /\ chunks # <<>> =>
               /\ 1 <= Len(chunks[Len(chunks)])
               /\ Len(chunks[Len(chunks)]) <= csize

\* an input of two different characters and more has been cut into a full
\* chunk and a shorter last one
C26_Witness ==
    /\ cpc = "done"
    /\ csize = 3
    /\ Len(data) = 5
    /\ data[1] # data[4]
    /\ Len(chunks) = 2
    /\ Len(chunks[2]) = 2

====
